---- MODULE Spec2Model ----
(***************************************************************************)
(* Model of the Apache server-status URL monitor (src/tool.py).            *)
(*                                                                         *)
(* Strings are sequences of atoms.  An atom is either one delimiter        *)
(* character (":", "/", "?", "#", "[", " ") or a run of characters that    *)
(* holds no delimiter ("a", "A", "1", "http", "server-status", ...).  No   *)
(* atom is a concatenation of other atoms, so two strings are equal        *)
(* exactly when their atom sequences are equal, and the string operations  *)
(* of the source (find, slicing, endswith, lower, strip, concatenation)    *)
(* are the same operations on the atom sequences.                          *)
(***************************************************************************)
EXTENDS Integers, Sequences, FiniteSets, TLC

VARIABLES
    pc,                 \* position of the running function
    fn_in,              \* argument of the pure function under check
    fn_out,             \* its result
    fn_out2,            \* the result of applying it to its own result
    args,               \* main: the parsed command line
    input_file,         \* the file --input names: whether it exists, its lines
    urls,               \* main: the targets to process
    i,                  \* main: the 1-based index of the current target
    j,                  \* main: the countdown of the monitoring delay
    vulnerable_count,   \* main: targets process_url returned True for
    seen_urls,          \* main: the set of URLs already reported
    f_url,              \* fetch: its url argument
    attempt,            \* fetch: the retry round, 0-based
    sidx,               \* fetch: the 1-based position in schemes
    requests,           \* every requests.get call of the current fetch
    f_ret,              \* fetch: the returned (text, status_code)
    console,            \* the verdict and record lines printed so far
    outfile,            \* the lines appended to the output file
    printed,            \* the "[+]" record lines printed so far
    save_calls,         \* the texts passed to save_line so far
    extract_calls,      \* how many times extract_urls has been called
    fetched,            \* the body fetch returned for each target processed
    stats               \* the numbers of the end-of-run summary, once printed

fnVars == <<fn_in, fn_out, fn_out2>>
fetchVars == <<f_url, attempt, sidx, requests, f_ret>>
mainVars == <<args, input_file, urls, i, j, vulnerable_count, seen_urls,
              console, outfile, printed, save_calls, extract_calls, fetched,
              stats>>
vars == <<pc, fnVars, fetchVars, mainVars>>

\* The value of a variable that holds no string yet (no string of the model
\* holds this atom).
None == <<"None">>

\* The result of a call that raised instead of returning a string.
Raised == <<"ValueError">>

(***************************************************************************)
(* String helpers (Python str operations on atom sequences).               *)
(***************************************************************************)

\* s[n:] for a 0-based n.
From(s, n) == SubSeq(s, n + 1, Len(s))

\* s[:n] for a 0-based n.
Upto(s, n) == SubSeq(s, 1, n)

\* s.find(c): the 0-based position of the first c at or after start, or -1.
Find(s, c, start) ==
    LET hits == {k \in (start + 1)..Len(s) : s[k] = c}
    IN  IF hits = {} THEN -1
        ELSE (CHOOSE k \in hits : \A h \in hits : k <= h) - 1

\* c in s
Has(s, c) == \E k \in 1..Len(s) : s[k] = c

\* s.endswith(suffix)
EndsWith(s, suffix) ==
    /\ Len(s) >= Len(suffix)
    /\ SubSeq(s, Len(s) - Len(suffix) + 1, Len(s)) = suffix

\* Atoms that start with an ASCII letter and hold only scheme characters
\* (letters, digits, "+", "-", ".").
AlphaAtoms == {"a", "A", "http", "https", "HTTP", "server-status",
               "a.com", "b.com"}

\* Atoms that hold only scheme characters.
SchemeAtoms == AlphaAtoms \cup {"1", "8080"}

\* str.lower() of one atom.
LowerAtom(a) ==
    CASE a = "A" -> "a"
      [] a = "HTTP" -> "http"
      [] OTHER -> a

\* str.lower()
Lower(s) == [k \in 1..Len(s) |-> LowerAtom(s[k])]

\* The literals of the source.
HttpPrefix == <<"http", ":", "/", "/">>
ServerStatus == <<"/", "server-status">>

(***************************************************************************)
(* urllib.parse.urlparse, as far as clean_url and fetch read its result:   *)
(* scheme, netloc and path (the path with query and fragment split off).   *)
(* A netloc with "[" and no "]" raises ValueError.                         *)
(***************************************************************************)

\* _splitnetloc(url, 2): the end of the network location.
NetlocEnd(url) ==
    LET ds == {Find(url, c, 2) : c \in {"/", "?", "#"}} \ {-1}
    IN  IF ds = {} THEN Len(url)
        ELSE CHOOSE d \in ds : \A e \in ds : d <= e

\* url.split(c, 1)[0]
Before(url, c) ==
    IF Has(url, c) THEN Upto(url, Find(url, c, 0)) ELSE url

urlparse(url0) ==
    LET colon == Find(url0, ":", 0)
        isScheme == /\ colon > 0
                    /\ url0[1] \in AlphaAtoms
                    /\ \A k \in 1..colon : url0[k] \in SchemeAtoms
        scheme == IF isScheme THEN Lower(Upto(url0, colon)) ELSE <<>>
        url1 == IF isScheme THEN From(url0, colon + 1) ELSE url0
        hasNetloc == Len(url1) >= 2 /\ SubSeq(url1, 1, 2) = <<"/", "/">>
        netloc == IF hasNetloc THEN SubSeq(url1, 3, NetlocEnd(url1)) ELSE <<>>
        url2 == IF hasNetloc THEN From(url1, NetlocEnd(url1)) ELSE url1
        path == Before(Before(url2, "#"), "?")
    IN  [raised |-> Has(netloc, "["),
         scheme |-> scheme, netloc |-> netloc, path |-> path]

(***************************************************************************)
(* clean_url                                                               *)
(***************************************************************************)

\* Mutant: the url is not parsed again after the http:// prefix is added.
clean_url_stale_parse(url) ==
    LET p1 == urlparse(url)
    IN  IF p1.raised THEN Raised
        ELSE LET url1 == IF p1.scheme = <<>> THEN HttpPrefix \o url ELSE url
             IN  IF ~EndsWith(p1.path, ServerStatus)
                 THEN p1.scheme \o <<":", "/", "/">> \o p1.netloc \o ServerStatus
                 ELSE url1

clean_url(url) ==
    LET p1 == urlparse(url)
    IN  IF p1.raised THEN Raised
        ELSE LET url1 == IF p1.scheme = <<>> THEN HttpPrefix \o url ELSE url
                 p2 == IF p1.scheme = <<>> THEN urlparse(url1) ELSE p1
             IN  IF p2.raised THEN Raised
                 ELSE IF ~EndsWith(p2.path, ServerStatus)
                      THEN p2.scheme \o <<":", "/", "/">> \o p2.netloc \o ServerStatus
                      ELSE url1

(***************************************************************************)
(* A fetched body.  The model keeps what the code reads of it: whether it  *)
(* is the empty string, which of the two literal markers of is_valid its   *)
(* raw text holds, and of its lxml parse the title element, the text of    *)
(* every h1 and, per table, the text of the td cells of every tr.          *)
(***************************************************************************)

RawH1 == "<h1>Apache Server Status for"
RawTh == "<th>Srv</th><th>PID</th>"

ApacheStatus == <<"Apache", " ", "Status">>
ApacheServerStatus == <<"Apache", " ", "Server", " ", "Status">>

\* needle in hay
Contains(hay, needle) ==
    \E k \in 0..(Len(hay) - Len(needle)) :
        SubSeq(hay, k + 1, k + Len(needle)) = needle

\* title.tag: the document has a title element; title.string is None when the
\* element has no single string child (an empty <title></title>).
Doc(empty, raw, title, h1, tables) ==
    [empty |-> empty, raw |-> raw, title |-> title, h1 |-> h1,
     tables |-> tables]

NoTitle == [tag |-> FALSE, string |-> None]
EmptyTitle == [tag |-> TRUE, string |-> None]
Title(text) == [tag |-> TRUE, string |-> text]

\* The body '' (what fetch returns when every request failed).
EmptyBody == Doc(TRUE, {}, NoTitle, <<>>, <<>>)

(***************************************************************************)
(* Parser.is_valid                                                         *)
(***************************************************************************)

\* The indicators list is built in full before any() reads it, so
\* '"Apache Status" in soup.title.string' is evaluated whenever the body is
\* not empty and has a title element: with title.string None it raises
\* TypeError.
is_valid_raises(html) ==
    /\ ~html.empty
    /\ html.title.tag
    /\ html.title.string = None

\* The value is_valid returns when it does not raise.
is_valid(html) ==
    /\ ~html.empty
    /\ \/ html.title.tag /\ Contains(html.title.string, ApacheStatus)
       \/ \E k \in 1..Len(html.h1) : Contains(html.h1[k], ApacheServerStatus)
       \/ RawH1 \in html.raw
       \/ RawTh \in html.raw

(***************************************************************************)
(* Parser.extract_urls                                                     *)
(***************************************************************************)

\* Atoms of word characters (\w), for request lines.
WordAtoms == {"GET", "POST", "HTTP", "foo", "bar", "1"}

IsSpace(a) == a = " "
IsWord(a) == a \in WordAtoms

\* str.strip()
RECURSIVE LStrip(_)
LStrip(s) ==
    IF s # <<>> /\ IsSpace(Head(s)) THEN LStrip(Tail(s)) ELSE s

RECURSIVE RStrip(_)
RStrip(s) ==
    IF s # <<>> /\ IsSpace(s[Len(s)]) THEN RStrip(Upto(s, Len(s) - 1)) ELSE s

Strip(s) == RStrip(LStrip(s))

\* The length of the longest prefix of s whose atoms all satisfy the class:
\* what a greedy \w+, \s+ or [^\s]+ consumes.
RECURSIVE RunWord(_)
RunWord(s) ==
    IF s # <<>> /\ IsWord(Head(s)) THEN 1 + RunWord(Tail(s)) ELSE 0

RECURSIVE RunSpace(_)
RunSpace(s) ==
    IF s # <<>> /\ IsSpace(Head(s)) THEN 1 + RunSpace(Tail(s)) ELSE 0

RECURSIVE RunNonSpace(_)
RunNonSpace(s) ==
    IF s # <<>> /\ ~IsSpace(Head(s)) THEN 1 + RunNonSpace(Tail(s)) ELSE 0

\* re.match(r"(\w+)\s+([^\s]+)(?:\s+HTTP/\d\.\d)?", s): the match is anchored
\* at the start only; the optional group changes neither captured group.
\* \w+ must be followed by \s and \s+ by a non-space, so each greedy run is
\* the only one that can match.
MatchRequest(s) ==
    LET w == RunWord(s)
        afterW == From(s, w)
        sp == RunSpace(afterW)
        afterSp == From(afterW, sp)
        u == RunNonSpace(afterSp)
    IN  [matched |-> w >= 1 /\ sp >= 1 /\ u >= 1,
         method |-> Upto(s, w),
         request_uri |-> Upto(afterSp, u)]

\* len(cols) < MinCols skips the row; the columns read, 0-based.
MinCols == 15
PidCol == 1
VhostCol == 13
RequestCol == 14

\* The body of the loop over rows: the entries one row appends (none or one).
RowEntries(cols) ==
    IF Len(cols) < MinCols THEN <<>>
    ELSE LET pid == Strip(cols[PidCol + 1])
             vhost == Strip(cols[VhostCol + 1])
             m == MatchRequest(Strip(cols[RequestCol + 1]))
         IN  IF ~m.matched THEN <<>>
             ELSE IF vhost # <<>> /\ m.request_uri # <<>>
                  THEN <<[pid |-> pid, method |-> m.method,
                          url |-> HttpPrefix \o vhost \o m.request_uri]>>
                  ELSE <<>>

\* Mutant: a row that is too short ends the loop (break for continue).
RECURSIVE ExtractRows_break(_)
ExtractRows_break(rows) ==
    IF rows = <<>> \/ Len(Head(rows)) < MinCols THEN <<>>
    ELSE RowEntries(Head(rows)) \o ExtractRows_break(Tail(rows))

\* for row in rows
RECURSIVE ExtractRows(_)
ExtractRows(rows) ==
    IF rows = <<>> THEN <<>>
    ELSE RowEntries(Head(rows)) \o ExtractRows(Tail(rows))

\* tables[0].find_all("tr")[1:]: the rows of the first table but the first.
extract_urls(html) ==
    IF html.tables = <<>> THEN <<>>
    ELSE ExtractRows(From(html.tables[1], 1))

(***************************************************************************)
(* Requester.fetch: one action per requests.get call.                      *)
(***************************************************************************)

max_retries == 3

\* schemes = ["http", "https"] if not urlparse(url).scheme else [its scheme]
Schemes(url) ==
    IF urlparse(url).scheme = <<>>
    THEN << <<"http">>, <<"https">> >>
    ELSE << urlparse(url).scheme >>

\* target_url
TargetUrl(url, scheme) ==
    IF urlparse(url).scheme # <<>> THEN url
    ELSE scheme \o <<":", "/", "/">> \o urlparse(url).netloc
                \o urlparse(url).path

\* What a requests.get call can do: return a response, raise SSLError, or
\* raise another exception (connection refused, DNS failure, timeout).
Response(text, status) ==
    [kind |-> "response", text |-> text, status |-> status]
SSLError == [kind |-> "SSLError", text |-> EmptyBody, status |-> "None"]
OtherError == [kind |-> "error", text |-> EmptyBody, status |-> "None"]

\* return '', None
Exhausted == [text |-> EmptyBody, status |-> "None"]

\* f_ret before fetch has returned.
NoResult == [text |-> EmptyBody, status |-> "pending"]

\* One entry of the request log.
Request(url, verify, outcome) ==
    [url |-> url, verify |-> verify, kind |-> outcome.kind,
     text |-> outcome.text, status |-> outcome.status]

\* Mutant: every failure of the verified request is retried unverified.
AfterVerified_retry_any(outcome) ==
    CASE outcome.kind = "response" -> "return"
      [] OTHER -> "unverified"

\* Mutant: a response does not end the loops.
AfterVerified_no_return(outcome) ==
    CASE outcome.kind = "response" -> "advance"
      [] outcome.kind = "SSLError" -> "unverified"
      [] OTHER -> "advance"

\* The try block of the verified request: a response returns, SSLError goes
\* to the unverified request, any other exception falls to the next scheme.
AfterVerified(outcome) ==
    CASE outcome.kind = "response" -> "return"
      [] outcome.kind = "SSLError" -> "unverified"
      [] OTHER -> "advance"

\* The end of one pass of the scheme loop without a response: the next
\* scheme, or the next round (after 'if attempt < max_retries - 1' sleeps),
\* or the end of both loops.
Advance ==
    IF sidx < Len(Schemes(f_url))
    THEN /\ sidx' = sidx + 1
         /\ pc' = "fetch"
         /\ UNCHANGED <<attempt, f_ret>>
    ELSE IF attempt < max_retries - 1
         THEN /\ attempt' = attempt + 1
              /\ sidx' = 1
              /\ pc' = "fetch"
              /\ UNCHANGED f_ret
         ELSE /\ f_ret' = Exhausted
              /\ pc' = "fetched"
              /\ UNCHANGED <<attempt, sidx>>

Return(outcome) ==
    /\ f_ret' = [text |-> outcome.text, status |-> outcome.status]
    /\ pc' = "fetched"
    /\ UNCHANGED <<attempt, sidx>>

(***************************************************************************)
(* The servers: what a request can be answered with.                       *)
(***************************************************************************)

\* The text of a cell the code does not read.
Filler == <<"x">>

\* A tr with n td cells, of which the code reads the PID, the vhost and the
\* request.
MkRow(n, pid, vhost, request) ==
    [k \in 1..n |->
        CASE k = PidCol + 1 -> pid
          [] k = VhostCol + 1 -> vhost
          [] k = RequestCol + 1 -> request
          [] OTHER -> Filler]

\* The header row holds th cells only.
HeaderRow == <<>>

ReqGetFoo == <<"GET", " ", "/", "foo", " ", "HTTP", "/", "1", ".", "1">>
ReqPostBar == <<" ", "POST", " ", " ", "/", "bar", " ">>
ReqGetFooBare == <<"GET", " ", "/", "foo">>

RowFoo == MkRow(15, <<"123">>, <<"example.com">>, ReqGetFoo)
RowBar == MkRow(16, <<" ", "7", " ">>, <<" ", "b.com", " ">>, ReqPostBar)
RowFooAgain == MkRow(15, <<"124">>, <<"example.com">>, ReqGetFooBare)
RowShort == MkRow(14, <<"9">>, <<"example.com">>, <<>>)
RowNoVhost == MkRow(15, <<"8">>, <<" ">>, ReqGetFoo)
RowMethodOnly == MkRow(15, <<"5">>, <<"example.com">>, <<"GET">>)
RowNoMethod == MkRow(15, <<"6">>, <<"example.com">>, <<"/", "foo", " ", "bar">>)
RowIdle == MkRow(15, <<"-">>, <<>>, <<>>)

StatusH1 == ApacheServerStatus \o <<" ", "for", " ", "a.com">>

PageNotFound == Doc(FALSE, {}, Title(<<"Not", " ", "Found">>), <<>>, <<>>)
PageEmptyTitle == Doc(FALSE, {}, EmptyTitle, <<>>, <<>>)
PageStatusNoTable == Doc(FALSE, {}, Title(ApacheStatus), <<>>, <<>>)
PageStatusA ==
    Doc(FALSE, {RawH1, RawTh}, Title(ApacheStatus), <<StatusH1>>,
        << <<HeaderRow, RowFoo, RowShort, RowBar>> >>)
PageStatusB ==
    Doc(FALSE, {RawH1}, NoTitle, <<StatusH1>>,
        << <<HeaderRow, RowIdle, RowFooAgain, RowFoo>> >>)

Responses ==
    {Response(PageNotFound, "404"), Response(EmptyBody, "500"),
     Response(PageEmptyTitle, "200"), Response(PageStatusNoTable, "200"),
     Response(PageStatusA, "200"), Response(PageStatusB, "200")}

VerifiedOutcomes == Responses \cup {SSLError, OtherError}

\* The unverified request can still fail, with SSLError or anything else:
\* 'except Exception' takes both the same way.
UnverifiedOutcomes == Responses \cup {OtherError}

FetchVerified ==
    /\ pc = "fetch"
    /\ \E outcome \in VerifiedOutcomes :
        /\ requests' = Append(requests,
               Request(TargetUrl(f_url, Schemes(f_url)[sidx]), TRUE, outcome))
        /\ IF AfterVerified(outcome) = "return" THEN Return(outcome)
           ELSE IF AfterVerified(outcome) = "unverified"
                THEN /\ pc' = "fetch_ssl"
                     /\ UNCHANGED <<attempt, sidx, f_ret>>
                ELSE Advance
    /\ UNCHANGED <<f_url, fnVars, mainVars>>

FetchUnverified ==
    /\ pc = "fetch_ssl"
    /\ \E outcome \in UnverifiedOutcomes :
        /\ requests' = Append(requests,
               Request(TargetUrl(f_url, Schemes(f_url)[sidx]), FALSE, outcome))
        /\ IF outcome.kind = "response" THEN Return(outcome) ELSE Advance
    /\ UNCHANGED <<f_url, fnVars, mainVars>>

(***************************************************************************)
(* process_url, from the return of fetch on.                               *)
(***************************************************************************)

\* Mutant: every entry is reported, seen or not.
NewEntries_no_check(entries, seen) == entries

\* for entry in entries: the entries whose url is not in seen_urls when the
\* loop reaches them (each is added to seen_urls at once).

RECURSIVE NewEntries(_, _)
NewEntries(entries, seen) ==
    IF entries = <<>> THEN <<>>
    ELSE IF Head(entries).url \in seen
         THEN NewEntries(Tail(entries), seen)
         ELSE <<Head(entries)>>
              \o NewEntries(Tail(entries), seen \cup {Head(entries).url})

UrlsOf(entries) == {entries[k].url : k \in 1..Len(entries)}

Verdict(verdict, status, found) ==
    [verdict |-> verdict, status |-> status, found |-> found]

\* Mutant: a target counts as vulnerable only when it yields entries.
process_url_needs_entries(ret, seen) ==
    IF is_valid_raises(ret.text)
    THEN [raised |-> TRUE, returns |-> FALSE, extracted |-> 0,
          entries |-> <<>>, new |-> <<>>, lines |-> <<>>]
    ELSE IF ~is_valid(ret.text)
    THEN [raised |-> FALSE, returns |-> FALSE, extracted |-> 0,
          entries |-> <<>>, new |-> <<>>,
          lines |-> <<Verdict("NOT VULNERABLE", ret.status, 0)>>]
    ELSE LET entries == extract_urls(ret.text)
         IN  [raised |-> FALSE, returns |-> entries # <<>>, extracted |-> 1,
              entries |-> entries, new |-> NewEntries(entries, seen),
              lines |-> IF entries = <<>>
                        THEN <<Verdict("VULNERABLE but no URLs found", "", 0)>>
                        ELSE <<Verdict("VULNERABLE: Found", "", Len(entries))>>]

\* Mutant: the page is extracted before it is validated.
process_url_extract_first(ret, seen) ==
    LET entries == extract_urls(ret.text)
    IN  IF is_valid_raises(ret.text)
        THEN [raised |-> TRUE, returns |-> FALSE, extracted |-> 1,
              entries |-> <<>>, new |-> <<>>, lines |-> <<>>]
        ELSE IF ~is_valid(ret.text)
        THEN [raised |-> FALSE, returns |-> FALSE, extracted |-> 1,
              entries |-> <<>>, new |-> <<>>,
              lines |-> <<Verdict("NOT VULNERABLE", ret.status, 0)>>]
        ELSE [raised |-> FALSE, returns |-> TRUE, extracted |-> 1,
              entries |-> entries, new |-> NewEntries(entries, seen),
              lines |-> IF entries = <<>>
                        THEN <<Verdict("VULNERABLE but no URLs found", "", 0)>>
                        ELSE <<Verdict("VULNERABLE: Found", "", Len(entries))>>]

\* What process_url does with fetch's result ret and the set seen: whether
\* it raised, what it returned, how often it called extract_urls, the
\* entries it reported as new (in order), and the verdict it printed.
process_url(ret, seen) ==
    IF is_valid_raises(ret.text)
    THEN [raised |-> TRUE, returns |-> FALSE, extracted |-> 0,
          entries |-> <<>>, new |-> <<>>, lines |-> <<>>]
    ELSE IF ~is_valid(ret.text)
    THEN [raised |-> FALSE, returns |-> FALSE, extracted |-> 0,
          entries |-> <<>>, new |-> <<>>,
          lines |-> <<Verdict("NOT VULNERABLE", ret.status, 0)>>]
    ELSE LET entries == extract_urls(ret.text)
         IN  [raised |-> FALSE, returns |-> TRUE, extracted |-> 1,
              entries |-> entries, new |-> NewEntries(entries, seen),
              lines |-> IF entries = <<>>
                        THEN <<Verdict("VULNERABLE but no URLs found", "", 0)>>
                        ELSE <<Verdict("VULNERABLE: Found", "", Len(entries))>>]

\* save_line: with no output file nothing is written; a write that fails is
\* reported and the line is lost.  written[k] says whether the k-th write of
\* this call succeeded.
RECURSIVE Written(_, _)
Written(lines, written) ==
    IF lines = <<>> THEN <<>>
    ELSE (IF written[Len(written) - Len(lines) + 1] THEN <<Head(lines)>>
          ELSE <<>>)
         \o Written(Tail(lines), written)

(***************************************************************************)
(* main                                                                    *)
(***************************************************************************)

MaxTargets == 2
MaxSleep == 1
DefaultSleep == 10

TargetA == <<"a.com">>
TargetB == <<"http", ":", "/", "/", "b.com", "/", "server-status">>
TargetBad == <<"http", ":", "/", "/", "[">>
Targets == {TargetA, TargetB, TargetBad}

BlankLine == <<" ">>
Lines == Targets \cup {BlankLine}

RECURSIVE ListsUpTo(_, _)
ListsUpTo(items, n) ==
    IF n = 0 THEN {<<>>}
    ELSE LET shorter == ListsUpTo(items, n - 1)
         IN  shorter \cup {Append(l, x) : l \in shorter, x \in items}

Sleeps == (0..MaxSleep) \cup {DefaultSleep}

NoFile == [state |-> "none", lines |-> <<>>]

\* [line.strip() for line in f if line.strip()]
RECURSIVE ReadTargets(_)
ReadTargets(lines) ==
    IF lines = <<>> THEN <<>>
    ELSE (IF Strip(Head(lines)) # <<>> THEN <<Strip(Head(lines))>> ELSE <<>>)
         \o ReadTargets(Tail(lines))

NoStats == <<>>

Summary(checked, vulnerable, seen) ==
    <<[checked |-> checked, vulnerable |-> vulnerable,
       not_vulnerable |-> checked - vulnerable,
       unique |-> IF seen # {} THEN <<Cardinality(seen)>> ELSE <<>>]>>

FetchIdle ==
    /\ f_url = None
    /\ attempt = 0
    /\ sidx = 1
    /\ requests = <<>>
    /\ f_ret = NoResult

MainIdle ==
    /\ args = [url |-> None, input |-> FALSE, sleep |-> DefaultSleep,
               output |-> FALSE]
    /\ input_file = NoFile
    /\ urls = <<>>
    /\ i = 0
    /\ j = 0
    /\ vulnerable_count = 0
    /\ seen_urls = {}
    /\ console = <<>>
    /\ outfile = <<>>
    /\ printed = <<>>
    /\ save_calls = <<>>
    /\ extract_calls = 0
    /\ fetched = <<>>
    /\ stats = NoStats

FnIdle ==
    /\ fn_in = None
    /\ fn_out = None
    /\ fn_out2 = None

\* The command lines and input files of a run: no target at all, one URL
\* (-u, with a delay, which overrides --input), or an input file that is
\* missing, unreadable or holds up to MaxTargets lines.
Init ==
    /\ pc = "main"
    /\ FnIdle
    /\ FetchIdle
    /\ urls = <<>>
    /\ i = 0
    /\ j = 0
    /\ vulnerable_count = 0
    /\ seen_urls = {}
    /\ console = <<>>
    /\ outfile = <<>>
    /\ printed = <<>>
    /\ save_calls = <<>>
    /\ extract_calls = 0
    /\ fetched = <<>>
    /\ stats = NoStats
    /\ \/ /\ args = [url |-> None, input |-> FALSE, sleep |-> DefaultSleep,
                     output |-> FALSE]
          /\ input_file = NoFile
       \/ /\ \E u \in Targets, inp \in BOOLEAN, sl \in Sleeps,
                 out \in BOOLEAN :
                args = [url |-> u, input |-> inp, sleep |-> sl,
                        output |-> out]
          /\ input_file = NoFile
       \/ /\ \E out \in BOOLEAN :
                args = [url |-> None, input |-> TRUE, sleep |-> DefaultSleep,
                        output |-> out]
          /\ \/ input_file \in {[state |-> "missing", lines |-> <<>>],
                                [state |-> "unreadable", lines |-> <<>>]}
             \/ \E ls \in ListsUpTo(Lines, MaxTargets) :
                    input_file = [state |-> "ok", lines |-> ls]

\* main up to the loop: the usage text when there is neither --url nor
\* --input, the targets from --url or from the input file, and the early
\* returns (file not found, read error, no URLs).
MainStart ==
    /\ pc = "main"
    /\ IF args.url = None /\ ~args.input
       THEN /\ pc' = "usage"
            /\ UNCHANGED <<urls, i>>
       ELSE IF args.url # None
       THEN /\ urls' = <<args.url>>
            /\ i' = 1
            /\ pc' = "process"
       ELSE IF input_file.state # "ok"
       THEN /\ pc' = "config_error"
            /\ UNCHANGED <<urls, i>>
       ELSE /\ urls' = ReadTargets(input_file.lines)
            /\ IF urls' = <<>>
               THEN pc' = "config_error" /\ UNCHANGED i
               ELSE pc' = "process" /\ i' = 1
    /\ UNCHANGED <<args, input_file, j, vulnerable_count, seen_urls, console,
                   outfile, printed, save_calls, extract_calls, fetched,
                   stats, fnVars, fetchVars>>

\* process_url up to the call of fetch: clean_url raising ValueError is not
\* caught before the handler of __main__, which ends the run.
ProcessStart ==
    /\ pc = "process"
    /\ IF clean_url(urls[i]) = Raised
       THEN /\ pc' = "aborted"
            /\ UNCHANGED fetchVars
       ELSE /\ f_url' = clean_url(urls[i])
            /\ attempt' = 0
            /\ sidx' = 1
            /\ requests' = <<>>
            /\ f_ret' = NoResult
            /\ pc' = "fetch"
    /\ UNCHANGED <<fnVars, mainVars>>

\* The rest of the loop body after process_url: the countdown when
\* monitoring one URL, else the next target, else the summary.
EndOfLoop(count, seen) ==
    IF i < Len(urls)
    THEN /\ i' = i + 1
         /\ pc' = "process"
         /\ stats' = NoStats
    ELSE /\ pc' = "summary"
         /\ stats' = Summary(Len(urls), count, seen)
         /\ UNCHANGED i

\* process_url from the return of fetch, and main up to the next blocking
\* call.  An exception of is_valid is not caught before the handler of
\* __main__, which ends the run.
ProcessResult ==
    /\ pc = "fetched"
    /\ fetched' = Append(fetched, f_ret.text)
    /\ LET r == process_url(f_ret, seen_urls)
           texts == [k \in 1..Len(r.new) |-> r.new[k].url]
       IN  IF r.raised
           THEN /\ pc' = "aborted"
                /\ extract_calls' = extract_calls + r.extracted
                /\ UNCHANGED <<i, j, vulnerable_count, seen_urls, console,
                               outfile, printed, save_calls, stats>>
           ELSE /\ extract_calls' = extract_calls + r.extracted
                /\ console' = console \o r.lines
                /\ printed' = printed \o r.new
                /\ save_calls' = save_calls \o texts
                /\ seen_urls' = seen_urls \cup UrlsOf(r.new)
                /\ \E written \in [1..Len(texts) -> BOOLEAN] :
                       /\ args.output \/ \A k \in 1..Len(texts) : ~written[k]
                       /\ outfile' = outfile \o Written(texts, written)
                /\ vulnerable_count' =
                       IF r.returns THEN vulnerable_count + 1
                       ELSE vulnerable_count
                /\ IF args.url # None
                   THEN /\ j' = args.sleep
                        /\ pc' = "sleep"
                        /\ UNCHANGED <<i, stats>>
                   ELSE /\ EndOfLoop(vulnerable_count', seen_urls')
                        /\ UNCHANGED j
    /\ UNCHANGED <<args, input_file, urls, fnVars, fetchVars>>

\* for j in range(args.sleep, 0, -1): one second of the countdown, or the end
\* of the loop body.
Sleep ==
    /\ pc = "sleep"
    /\ IF j > 0
       THEN /\ j' = j - 1
            /\ UNCHANGED <<pc, i, stats>>
       ELSE /\ EndOfLoop(vulnerable_count, seen_urls)
            /\ UNCHANGED j
    /\ UNCHANGED <<args, input_file, urls, vulnerable_count, seen_urls,
                   console, outfile, printed, save_calls, extract_calls,
                   fetched, fnVars, fetchVars>>

\* KeyboardInterrupt, at any point of a running main.
Interrupt ==
    /\ pc \in {"main", "process", "fetch", "fetch_ssl", "fetched", "sleep"}
    /\ pc' = "interrupted"
    /\ UNCHANGED <<fnVars, fetchVars, mainVars>>

Next ==
    \/ MainStart
    \/ ProcessStart
    \/ FetchVerified
    \/ FetchUnverified
    \/ ProcessResult
    \/ Sleep
    \/ Interrupt

Spec == Init /\ [][Next]_vars

(***************************************************************************)
(* Specification of fetch alone, for urls with and without a scheme.       *)
(***************************************************************************)

FetchUrls ==
    {<<"http", ":", "/", "/", "a.com", "/", "server-status">>,
     <<"https", ":", "/", "/", "a.com", "/", "server-status">>,
     <<"/", "/", "a.com", "/", "server-status">>,
     <<"a.com", "/", "server-status", "?", "auto">>}

InitFetch ==
    /\ pc = "fetch"
    /\ f_url \in FetchUrls
    /\ attempt = 0
    /\ sidx = 1
    /\ requests = <<>>
    /\ f_ret = NoResult
    /\ FnIdle
    /\ MainIdle

NextFetch == FetchVerified \/ FetchUnverified

SpecFetch == InitFetch /\ [][NextFetch]_vars

(***************************************************************************)
(* Specification of extract_urls as a pure function: every document with   *)
(* no table, or a first table of up to MaxRows rows, alone or followed by  *)
(* a second table.                                                         *)
(***************************************************************************)

MaxRows == 3

RowKinds == {HeaderRow, RowFoo, RowBar, RowFooAgain, RowShort, RowNoVhost,
             RowMethodOnly, RowNoMethod, RowIdle}

SecondTable == <<HeaderRow, RowBar>>

ExtractInputs ==
    {Doc(FALSE, {RawTh}, Title(ApacheStatus), <<>>, ts) :
        ts \in {<<>>}
             \cup {<<t>> : t \in ListsUpTo(RowKinds, MaxRows)}
             \cup {<<t, SecondTable>> : t \in ListsUpTo(RowKinds, MaxRows)}}

InitExtract ==
    /\ pc = "extract"
    /\ fn_in \in ExtractInputs
    /\ fn_out = None
    /\ fn_out2 = None
    /\ FetchIdle
    /\ MainIdle

Extract ==
    /\ pc = "extract"
    /\ fn_out' = extract_urls(fn_in)
    /\ pc' = "extracted"
    /\ UNCHANGED <<fn_in, fn_out2, fetchVars, mainVars>>

NextExtract == Extract

SpecExtract == InitExtract /\ [][NextExtract]_vars

(***************************************************************************)
(* Specification of clean_url as a pure function: every input of up to     *)
(* MaxParts atoms, cleaned and cleaned again.                              *)
(***************************************************************************)

MaxParts == 4

UrlAtoms == {"a", "A", "1", ":", "/", "?", "#", "[", "server-status"}

RECURSIVE StringsUpTo(_, _)
StringsUpTo(atoms, n) ==
    IF n = 0 THEN {<<>>}
    ELSE LET shorter == StringsUpTo(atoms, n - 1)
         IN  shorter \cup {Append(s, a) : s \in shorter, a \in atoms}

UrlInputs == StringsUpTo(UrlAtoms, MaxParts) \ {<<>>}

InitUrl ==
    /\ pc = "clean"
    /\ fn_in \in UrlInputs
    /\ fn_out = None
    /\ fn_out2 = None
    /\ FetchIdle
    /\ MainIdle

Clean ==
    /\ pc = "clean"
    /\ fn_out' = clean_url(fn_in)
    /\ pc' = IF fn_out' = Raised THEN "raised" ELSE "clean_again"
    /\ UNCHANGED <<fn_in, fn_out2, fetchVars, mainVars>>

CleanAgain ==
    /\ pc = "clean_again"
    /\ fn_out2' = clean_url(fn_out)
    /\ pc' = "cleaned"
    /\ UNCHANGED <<fn_in, fn_out, fetchVars, mainVars>>

NextUrl == Clean \/ CleanAgain

SpecUrl == InitUrl /\ [][NextUrl]_vars

(***************************************************************************)
(* The claims.                                                             *)
(***************************************************************************)

NoDup(seq) ==
    \A a, b \in 1..Len(seq) : a # b => seq[a] # seq[b]

PrintedUrls == [k \in 1..Len(printed) |-> printed[k].url]

\* C1: in one run of main every reconstructed URL is printed as new and
\* passed to save_line at most once, however often and from however many
\* targets it is extracted: the printed URLs are without repetition, they are
\* exactly seen_urls, save_line got the same URLs in the same order, and the
\* output file holds none twice.
C1_AtMostOnce ==
    /\ NoDup(PrintedUrls)
    /\ UrlsOf(printed) = seen_urls
    /\ save_calls = PrintedUrls
    /\ NoDup(outfile)

\* C1's case: a batch of two valid targets that both yield the same URL,
\* which was printed and saved once.
C1_Witness ==
    /\ pc = "summary"
    /\ Len(fetched) = 2
    /\ args.output
    /\ \E u \in UrlsOf(extract_urls(fetched[1]))
                \cap UrlsOf(extract_urls(fetched[2])) :
          /\ Cardinality({k \in 1..Len(printed) : printed[k].url = u}) = 1
          /\ Cardinality({k \in 1..Len(outfile) : outfile[k] = u}) = 1

\* C2: with a target given by -u/--url the run never reaches the end-of-run
\* summary on its own: after the countdown the same URL is processed again.
C2_MonitorsUntilInterrupted ==
    args.url # None => pc # "summary"

\* C3: in batch mode no failure of one target ends the run: the handler of
\* unexpected errors is never reached.
C3_TargetFailureNeverAborts ==
    args.url = None => pc # "aborted"

Rank(k) == Cardinality({m \in 1..k : requests[m].verify})

ExpectedSchemes ==
    IF urlparse(f_url).scheme = <<>>
    THEN << <<"http">>, <<"https">> >>
    ELSE << urlparse(f_url).scheme >>

\* C4: fetch issues at most 3 rounds of verified requests, each round going
\* through the candidate schemes in order (http then https for a url without
\* a scheme, the url's own scheme otherwise); a request that yields a
\* response is the last request of the call, and fetch has returned that
\* response's body and status code.
C4_RetryRounds ==
    /\ Cardinality({k \in 1..Len(requests) : requests[k].verify})
           <= 3 * Len(ExpectedSchemes)
    /\ \A k \in 1..Len(requests) :
          /\ urlparse(requests[k].url).scheme =
                 ExpectedSchemes[((Rank(k) - 1) % Len(ExpectedSchemes)) + 1]
          /\ requests[k].kind = "response" =>
                 /\ k = Len(requests)
                 /\ pc = "fetched"
                 /\ f_ret = [text |-> requests[k].text,
                             status |-> requests[k].status]

\* C4's case: a url without a scheme whose http request failed and whose
\* https request answered in the second round.
C4_Witness ==
    /\ pc = "fetched"
    /\ urlparse(f_url).scheme = <<>>
    /\ Len(requests) = 4
    /\ \A k \in 1..3 : requests[k].kind = "error"
    /\ requests[4].kind = "response"
    /\ urlparse(requests[4].url).scheme = <<"https">>

AllFailed(reqs) ==
    /\ reqs # <<>>
    /\ \A k \in 1..Len(reqs) : reqs[k].kind # "response"

\* C5: when every request of every scheme and round has failed, fetch has
\* gone through all 3 rounds and returned ('', None); process_url then
\* prints NOT VULNERABLE with status None, returns False (the vulnerable
\* count stays), does not call extract_urls, and leaves seen_urls, the
\* printed records and the output file as they were; nothing is raised.
C5_ExhaustedIsNotVulnerable ==
    [][(pc = "fetched" /\ AllFailed(requests)) =>
          /\ f_ret = [text |-> EmptyBody, status |-> "None"]
          /\ Cardinality({k \in 1..Len(requests) : requests[k].verify})
                 = 3 * Len(Schemes(f_url))
          /\ \/ pc' = "interrupted"
             \/ /\ pc' # "aborted"
                /\ console' = Append(console,
                                     Verdict("NOT VULNERABLE", "None", 0))
                /\ vulnerable_count' = vulnerable_count
                /\ extract_calls' = extract_calls
                /\ seen_urls' = seen_urls
                /\ printed' = printed
                /\ save_calls' = save_calls
                /\ outfile' = outfile]_vars

\* C5's case: a target whose three verified requests all failed with an SSL
\* error and whose three unverified requests failed too has been reported.
C5_Witness ==
    /\ pc \in {"process", "sleep", "summary"}
    /\ AllFailed(requests)
    /\ Len(requests) = 6
    /\ console # <<>>
    /\ console[Len(console)] = Verdict("NOT VULNERABLE", "None", 0)

ValidTargets == {k \in 1..Len(fetched) : is_valid(fetched[k])}

ExtractedUrls ==
    UNION {UrlsOf(extract_urls(fetched[k])) : k \in ValidTargets}

C6_Totals ==
    pc = "summary" =>
        /\ Len(fetched) = Len(urls)
        /\ stats = <<[checked |-> Len(urls),
                      vulnerable |-> Cardinality(ValidTargets),
                      not_vulnerable |->
                          Len(urls) - Cardinality(ValidTargets),
                      unique |-> IF ExtractedUrls = {} THEN <<>>
                                 ELSE <<Cardinality(ExtractedUrls)>>]>>
        /\ seen_urls = ExtractedUrls

\* C6: the summary reports checked = the number of targets, vulnerable = the
\* number of targets whose fetched body is_valid accepted (with or without
\* records), not vulnerable = the difference, and unique URLs = the number of
\* distinct URLs extracted from the accepted bodies, which is the size of
\* seen_urls (the line is left out when that number is 0); and no step of
\* the run lowers the vulnerable count or takes a URL out of seen_urls.
C6_RunTotals ==
    /\ []C6_Totals
    /\ [][/\ vulnerable_count' >= vulnerable_count
          /\ seen_urls \subseteq seen_urls']_vars

\* C6's case: a batch of two targets, the first valid with no table, the
\* second valid with two distinct URLs.
C6_Witness ==
    /\ pc = "summary"
    /\ args.url = None
    /\ fetched = <<PageStatusNoTable, PageStatusA>>
    /\ stats = <<[checked |-> 2, vulnerable |-> 2, not_vulnerable |-> 0,
                  unique |-> <<2>>]>>

\* The scheme and host:port a target string gives: what stands before and
\* after its first "://" (http and the string's start when it has none), the
\* host:port ending at the first "/", "?" or "#".
SchemeSepAt(x) ==
    {k \in 1..(Len(x) - 2) : SubSeq(x, k, k + 2) = <<":", "/", "/">>}

FirstSep(x) == CHOOSE k \in SchemeSepAt(x) : \A m \in SchemeSepAt(x) : k <= m

GivenScheme(x) ==
    IF SchemeSepAt(x) = {} THEN <<"http">>
    ELSE Lower(Upto(x, FirstSep(x) - 1))

GivenHostPort(x) ==
    LET rest == IF SchemeSepAt(x) = {} THEN x ELSE From(x, FirstSep(x) + 2)
        ends == {k \in 1..Len(rest) : rest[k] \in {"/", "?", "#"}}
    IN  IF ends = {} THEN rest
        ELSE Upto(rest, (CHOOSE k \in ends : \A m \in ends : k <= m) - 1)

\* C7: whenever clean_url returns, the path of the URL it returns is exactly
\* /server-status, and its scheme and host:port are those of the input.
C7_ExactPath ==
    pc \in {"clean_again", "cleaned"} =>
        /\ urlparse(fn_out).path = ServerStatus
        /\ urlparse(fn_out).scheme = GivenScheme(fn_in)
        /\ urlparse(fn_out).netloc = GivenHostPort(fn_in)

\* C8: clean_url applied to a URL it returned returns that URL.
C8_Idempotent ==
    pc = "cleaned" => fn_out2 = fn_out

\* C8's case: a bare host with a path and a query, which clean_url rewrote.
C8_Witness ==
    /\ pc = "cleaned"
    /\ fn_in = <<"a", "/", "a", "?">>
    /\ fn_out = <<"http", ":", "/", "/", "a", "/", "server-status">>
    /\ fn_out2 = fn_out

\* The rows extract_urls is to read: those of the first table but the first.
DataRows(html) ==
    IF html.tables = <<>> \/ html.tables[1] = <<>> THEN <<>>
    ELSE Tail(html.tables[1])

\* The text of a cell without the blanks around it.
Trimmed(s) ==
    IF \A k \in 1..Len(s) : s[k] = " " THEN <<>>
    ELSE LET first == CHOOSE k \in 1..Len(s) :
                          s[k] # " " /\ \A m \in 1..(k - 1) : s[m] = " "
             last == CHOOSE k \in 1..Len(s) :
                          s[k] # " " /\ \A m \in (k + 1)..Len(s) : s[m] = " "
         IN  SubSeq(s, first, last)

\* s is a method of word characters (s[1..a]), whitespace (up to b), a URI
\* without whitespace (up to c) and then the end or whitespace.
RequestShape(s, a, b, c) ==
    /\ 1 <= a /\ a < b /\ b < c /\ c <= Len(s)
    /\ \A k \in 1..a : s[k] \in {"GET", "POST", "HTTP", "foo", "bar", "1"}
    /\ \A k \in (a + 1)..b : s[k] = " "
    /\ \A k \in (b + 1)..c : s[k] # " "
    /\ c = Len(s) \/ s[c + 1] = " "

RequestShapes(s) ==
    {t \in (1..Len(s)) \X (1..Len(s)) \X (1..Len(s)) :
        RequestShape(s, t[1], t[2], t[3])}

\* A row contributes a record when it has at least 15 cells, its request
\* line (cell 14, 0-based) has the shape above and its vhost (cell 13) is not
\* blank.
Contributes(row) ==
    /\ Len(row) >= 15
    /\ RequestShapes(Trimmed(row[15])) # {}
    /\ Trimmed(row[14]) # <<>>

RecordOf(row) ==
    LET s == Trimmed(row[15])
        t == CHOOSE t \in RequestShapes(s) : TRUE
    IN  [pid |-> Trimmed(row[2]),
         method |-> SubSeq(s, 1, t[1]),
         url |-> <<"http", ":", "/", "/">> \o Trimmed(row[14])
                    \o SubSeq(s, t[2] + 1, t[3])]

\* C9: extract_urls returns a list (it never raises; with no table the list
\* is empty) that holds, in row order, exactly one record {pid, method,
\* url = "http://" + vhost + URI} for every row after the first of the first
\* table that contributes, and nothing for any other row, wherever that row
\* stands.
C9_RowsIndependent ==
    pc = "extracted" =>
        LET rows == DataRows(fn_in)
            acc == {k \in 1..Len(rows) : Contributes(rows[k])}
        IN  /\ Len(fn_out) = Cardinality(acc)
            /\ \A k \in acc :
                  fn_out[Cardinality({m \in acc : m <= k})] = RecordOf(rows[k])

\* C9's case: a row with 14 cells and a row with no method before a row
\* that contributes, and a second table that is not read.
C9_Witness ==
    /\ pc = "extracted"
    /\ fn_in.tables = << <<HeaderRow, RowShort, RowBar>>, SecondTable >>
    /\ fn_out = <<[pid |-> <<"7">>, method |-> <<"POST">>,
                   url |-> <<"http", ":", "/", "/", "b.com", "/", "bar">>]>>

\* C10: an unverified request follows a verified request to the same URL
\* that failed with an SSL error, and nothing else; every such SSL error is
\* followed by exactly one unverified request; a response to it is returned
\* at once, and after a failure of it the next request, if any, is a
\* verified one.
C10_SslFallback ==
    /\ pc = "fetch_ssl" =>
          /\ requests # <<>>
          /\ requests[Len(requests)].verify
          /\ requests[Len(requests)].kind = "SSLError"
    /\ \A k \in 1..Len(requests) :
          /\ ~requests[k].verify =>
                /\ k > 1
                /\ requests[k - 1].verify
                /\ requests[k - 1].kind = "SSLError"
                /\ requests[k - 1].url = requests[k].url
          /\ (requests[k].verify /\ requests[k].kind = "SSLError") =>
                IF k = Len(requests) THEN pc = "fetch_ssl"
                ELSE /\ ~requests[k + 1].verify
                     /\ requests[k + 1].url = requests[k].url
          /\ (~requests[k].verify /\ requests[k].kind = "response") =>
                /\ k = Len(requests)
                /\ pc = "fetched"
                /\ f_ret = [text |-> requests[k].text,
                            status |-> requests[k].status]
          /\ (~requests[k].verify /\ requests[k].kind # "response") =>
                IF k = Len(requests)
                THEN \/ pc = "fetch"
                     \/ pc = "fetched" /\ f_ret = [text |-> EmptyBody,
                                                   status |-> "None"]
                ELSE requests[k + 1].verify

\* C10's case: a first round that failed without an SSL error (no unverified
\* request), then an SSL error whose unverified request got a response.
C10_Witness ==
    /\ pc = "fetched"
    /\ Len(requests) = 3
    /\ requests[1].verify /\ requests[1].kind = "error"
    /\ requests[2].verify /\ requests[2].kind = "SSLError"
    /\ ~requests[3].verify /\ requests[3].kind = "response"

====
